---------------------------- MODULE Spec2Model ----------------------------
(***************************************************************************)
(* A model of vidsub-tools' subtitle timing code:                          *)
(*   subsync.py   - rewrite every timecode of a subtitle file by a delay   *)
(*   delaycalc.py - estimate the delay and its growth from two anchors     *)
(*                                                                         *)
(* Text is modelled as a sequence of characters, each its code point, so   *)
(* the regular expression scan, strptime and strftime work on characters   *)
(* as the code does; a stored file is the sequence of its bytes, which the *)
(* code reads and writes as UTF-8.  Growth factors are integer-valued      *)
(* floats from 1.0 to 10.0, for which delay * growth**ms is exact in       *)
(* double precision up to the point where Python raises OverflowError.     *)
(***************************************************************************)
EXTENDS Integers, Sequences, FiniteSets, TLC

VARIABLES
    fs,        \* file system: file id -> stored bytes
    fs0,       \* the file system when the run started (history)
    cwd,       \* current working directory of the process
    tgt,       \* args.target
    delay,     \* args.delay
    growth,    \* args.growth
    subs,      \* main's working set, in iteration order
    idx,       \* position of main's for loop in subs
    pc,        \* where main() is
    answer,    \* what the user typed at the prompt
    log,       \* one record per sync_sub call that has run
    out,       \* the messages printed so far
    cin,       \* codec probe: the input
    cout,      \* codec probe: the output
    ein,       \* estimator run: its arguments
    eout       \* estimator run: its result

vars == <<fs, fs0, cwd, tgt, delay, growth, subs, idx, pc, answer, log, out,
          cin, cout, ein, eout>>

batchVars == <<fs, fs0, cwd, tgt, delay, growth, subs, idx, pc, answer, log, out>>
codecVars == <<cin, cout>>
estVars   == <<ein, eout>>

-----------------------------------------------------------------------------
(* A local variable: Body of the value of v, with v evaluated once *)

Bind(v, Body(_)) == CHOOSE r \in {Body(x) : x \in {v}} : TRUE

-----------------------------------------------------------------------------
(* Characters *)

\* A character is its code point, the number ord() gives; a byte of a stored
\* file is a number from 0 to 255.

\* ord(c) of the ASCII characters the documents of this model are written in
Ord(c) ==
    CASE c = "\n" -> 10 [] c = "\r" -> 13 [] c = " " -> 32 [] c = "," -> 44
      [] c = "-" -> 45 [] c = "0" -> 48 [] c = "1" -> 49 [] c = "2" -> 50
      [] c = "3" -> 51 [] c = "4" -> 52 [] c = "5" -> 53 [] c = "6" -> 54
      [] c = "7" -> 55 [] c = "8" -> 56 [] c = "9" -> 57 [] c = ":" -> 58
      [] c = ">" -> 62 [] c = "H" -> 72 [] c = "i" -> 105 [] c = "x" -> 120
      [] c = "y" -> 121 [] c = "z" -> 122

\* the text whose characters are the one-character strings of s
Str(s) == [k \in 1..Len(s) |-> Ord(s[k])]

Zero == 48
Colon == 58
Comma == 44
LF == 10
CR == 13

\* the digits [0-9]
AsciiDigits == Zero..(Zero + 9)

\* The decimal digits of Unicode 14.0 (general category Nd) come in runs of
\* ten, DIGIT ZERO to DIGIT NINE of one script; these are the code points of
\* the zeros, ASCII first.
DigitBlocks ==
    {48, 1632, 1776, 1984, 2406, 2534, 2662, 2790, 2918, 3046, 3174, 3302,
     3430, 3558, 3664, 3792, 3872, 4160, 4240, 6112, 6160, 6470, 6608, 6784,
     6800, 6992, 7088, 7232, 7248, 42528, 43216, 43264, 43472, 43504, 43600,
     44016, 65296, 66720, 68912, 69734, 69872, 69942, 70096, 70384, 70736,
     70864, 71248, 71360, 71472, 71904, 72016, 72784, 73040, 73120, 92768,
     92864, 93008, 120782, 120792, 120802, 120812, 120822, 123200, 123632,
     125264, 130032}

\* the characters \d matches in a str pattern
Digits == UNION {b..(b + 9) : b \in DigitBlocks}

\* the decimal digits outside ASCII
WideDigits == Digits \ AsciiDigits

\* the zeros of some scripts: ARABIC-INDIC (two bytes in UTF-8), EXTENDED
\* ARABIC-INDIC (two), DEVANAGARI (three), FULLWIDTH (three) and
\* MATHEMATICAL BOLD (four)
ArabicIndicZero == 1632
ExtArabicIndicZero == 1776
DevanagariZero == 2406
FullwidthZero == 65296
MathBoldZero == 120782

\* int() of one digit
DigitVal(c) == c - (CHOOSE b \in DigitBlocks : b <= c /\ c <= b + 9)

\* "%d" % n for one digit
DigitChar(n) == Zero + n

\* int() of the digits text[i..j]
RECURSIVE IntOf(_, _, _)
IntOf(text, i, j) ==
    IF j < i THEN 0 ELSE IntOf(text, i, j - 1) * 10 + DigitVal(text[j])

\* "%02d" % n and "%03d" % n
Fmt2(n) == <<DigitChar((n \div 10) % 10), DigitChar(n % 10)>>
Fmt3(n) == <<DigitChar((n \div 100) % 10), DigitChar((n \div 10) % 10), DigitChar(n % 10)>>

-----------------------------------------------------------------------------
(* Text files: open(file, "r") and open(file, "r+") in text mode, with the
   UTF-8 encoding of the locale and universal newlines *)

\* the UTF-8 encoding of a character (no surrogate: a text that was decoded
\* holds none)
Utf8(c) ==
    IF c < 128 THEN <<c>>
    ELSE IF c < 2048 THEN <<192 + (c \div 64), 128 + (c % 64)>>
    ELSE IF c < 65536
    THEN <<224 + (c \div 4096), 128 + ((c \div 64) % 64), 128 + (c % 64)>>
    ELSE <<240 + (c \div 262144), 128 + ((c \div 4096) % 64),
           128 + ((c \div 64) % 64), 128 + (c % 64)>>

\* str.encode: the bytes of a text, from character i on
RECURSIVE EncodeFrom(_, _)
EncodeFrom(text, i) ==
    IF i > Len(text) THEN <<>> ELSE Utf8(text[i]) \o EncodeFrom(text, i + 1)

Encode(text) == EncodeFrom(text, 1)

\* the bytes 10xxxxxx, which continue an encoding
ContinuationBytes == 128..191

\* the number of bytes of the encoding a byte starts: 0xxxxxxx one, 110xxxxx
\* two, 1110xxxx three, 11110xxx four; 0 for a byte that starts none (a
\* continuation byte, 0xC0 and 0xC1, 0xF5 and above)
Width(b) ==
    IF b < 128 THEN 1
    ELSE IF 194 <= b /\ b <= 223 THEN 2
    ELSE IF 224 <= b /\ b <= 239 THEN 3
    ELSE IF 240 <= b /\ b <= 244 THEN 4
    ELSE 0

\* the answer of CharAt where no character starts
NoChar == -1

\* the bits of the character that the Width(bytes[i]) bytes from i on carry
RECURSIVE Payload(_, _, _)
Payload(bytes, i, k) ==
    IF k = 0
    THEN CASE Width(bytes[i]) = 1 -> bytes[i]
           [] Width(bytes[i]) = 2 -> bytes[i] - 192
           [] Width(bytes[i]) = 3 -> bytes[i] - 224
           [] Width(bytes[i]) = 4 -> bytes[i] - 240
    ELSE Payload(bytes, i, k - 1) * 64 + (bytes[i + k] - 128)

\* the character whose encoding starts at byte i, NoChar if none does: the
\* encoding is cut short, a byte of it is no continuation byte, it is longer
\* than the character needs, or it is that of a surrogate or of a number
\* above 0x10FFFF
CharAt(bytes, i) ==
    Bind(Width(bytes[i]), LAMBDA w :
        IF w = 0 \/ i + w - 1 > Len(bytes) THEN NoChar
        ELSE IF \E k \in 1..(w - 1) : bytes[i + k] \notin ContinuationBytes THEN NoChar
        ELSE Bind(Payload(bytes, i, w - 1), LAMBDA c :
                 IF \/ w = 3 /\ (c < 2048 \/ (55296 <= c /\ c <= 57343))
                    \/ w = 4 /\ (c < 65536 \/ c > 1114111)
                 THEN NoChar ELSE c))

\* bytes.decode: a character starts at every byte that continues none; a
\* byte sequence in which the encodings of those characters do not follow
\* one another from the first byte to the last raises UnicodeDecodeError
Decode(bytes) ==
    Bind(SelectSeq([i \in 1..Len(bytes) |-> i],
                   LAMBDA i : bytes[i] \notin ContinuationBytes),
         LAMBDA starts :
    Bind([k \in 1..Len(starts) |-> CharAt(bytes, starts[k])],
         LAMBDA text :
             IF /\ Len(starts) = 0 => Len(bytes) = 0
                /\ \A k \in 1..Len(starts) :
                      /\ text[k] # NoChar
                      /\ k = 1 => starts[k] = 1
                      /\ starts[k] + Width(bytes[starts[k]]) =
                            IF k < Len(starts) THEN starts[k + 1] ELSE Len(bytes) + 1
             THEN [err |-> "none", text |-> SubSeq(text, 1, Len(starts))]
             ELSE [err |-> "UnicodeDecodeError", text |-> <<>>]))

\* universal newlines on reading, from character i on: "\r\n" and "\r"
\* are read as "\n"
RECURSIVE TranslateFrom(_, _)
TranslateFrom(text, i) ==
    IF i > Len(text) THEN <<>>
    ELSE IF text[i] = CR
    THEN <<LF>> \o TranslateFrom(text, IF i < Len(text) /\ text[i + 1] = LF
                                        THEN i + 2 ELSE i + 1)
    ELSE <<text[i]>> \o TranslateFrom(text, i + 1)

TranslateNewlines(text) == TranslateFrom(text, 1)

\* fr.read() of a file holding bytes
ReadText(bytes) ==
    Bind(Decode(bytes),
         LAMBDA d : IF d.err # "none" THEN d
                    ELSE [err |-> "none", text |-> TranslateNewlines(d.text)])

\* the bytes fw.write(text) puts into the file: "\n" is written as
\* os.linesep, which is "\n" here, and the text is encoded
WrittenBytes(text) == Encode(text)

-----------------------------------------------------------------------------
(* The pattern \d{2}:\d{2}:\d{2},\d{3} *)

TimecodeLen == 2 + 1 + 2 + 1 + 2 + 1 + 3

\* the pattern matches data at position i
MatchesAt(data, i) ==
    /\ i >= 1
    /\ i + TimecodeLen - 1 <= Len(data)
    /\ \A k \in {0, 1, 3, 4, 6, 7, 9, 10, 11} : data[i + k] \in Digits
    /\ data[i + 2] = Colon
    /\ data[i + 5] = Colon
    /\ data[i + 8] = Comma

\* re.findall / re.sub scanning: the start positions of the non-overlapping
\* matches, leftmost first, from position i on
RECURSIVE ScanFrom(_, _)
ScanFrom(data, i) ==
    IF i > Len(data) THEN <<>>
    ELSE IF MatchesAt(data, i) THEN <<i>> \o ScanFrom(data, i + TimecodeLen)
    ELSE ScanFrom(data, i + 1)

FindAll(data) == ScanFrom(data, 1)

\* m.group() of the match at position i
Group(data, i) == SubSeq(data, i, i + TimecodeLen - 1)

-----------------------------------------------------------------------------
(* datetime: strptime, calc_ms, timedelta arithmetic, strftime *)

MsPerDay == 24 * 60 * 60 * 1000

\* datetime.min and datetime.max as day offsets from 1900-01-01, the date
\* strptime gives a time-only format
MinDay == -693595
MaxDay == 2958463

\* the least k for which float(g)**k raises OverflowError, that is the
\* least k with g**k >= 2**1024
FloatMaxExp == [g \in 2..10 |->
    CASE g = 2 -> 1024 [] g = 3 -> 647 [] g = 4 -> 512 [] g = 5 -> 442
      [] g = 6 -> 397 [] g = 7 -> 365 [] g = 8 -> 342 [] g = 9 -> 324
      [] g = 10 -> 309]

\* strptime's regular expression for "%H:%M:%S,%f" on a text the pattern
\* matched: %H is 2[0-3]|[0-1]\d|\d, %M is [0-5]\d|\d, %S is
\* 6[0-1]|[0-5]\d|\d and %f is [0-9]{1,6}
StrptimeMatches(t) ==
    /\ \/ t[1] = Zero + 2 /\ t[2] \in Zero..(Zero + 3)
       \/ t[1] \in Zero..(Zero + 1) /\ t[2] \in Digits
    /\ t[4] \in Zero..(Zero + 5) /\ t[5] \in Digits
    /\ \/ t[7] = Zero + 6 /\ t[8] \in Zero..(Zero + 1)
       \/ t[7] \in Zero..(Zero + 5) /\ t[8] \in Digits
    /\ \A k \in 10..12 : t[k] \in AsciiDigits

\* datetime.datetime.strptime(time_str, "%H:%M:%S,%f") on 12 characters;
\* a second of 60 or 61 passes the expression and is refused by datetime
strptime(time_str) ==
    IF Len(time_str) = TimecodeLen /\ MatchesAt(time_str, 1)
       /\ StrptimeMatches(time_str)
    THEN LET h == IntOf(time_str, 1, 2)
             m == IntOf(time_str, 4, 5)
             s == IntOf(time_str, 7, 8)
             f == IntOf(time_str, 10, 12)
         IN  IF h <= 23 /\ m <= 59 /\ s <= 59
             THEN [err |-> "none", hour |-> h, minute |-> m, second |-> s,
                   microsecond |-> f * 1000]
             ELSE [err |-> "ValueError", hour |-> 0, minute |-> 0, second |-> 0,
                   microsecond |-> 0]
    ELSE [err |-> "ValueError", hour |-> 0, minute |-> 0, second |-> 0,
          microsecond |-> 0]

calc_ms(t) ==
    ((t.hour * 60 + t.minute) * 60 + t.second) * 1000 + t.microsecond \div 1000

\* A signed span of milliseconds, normalised as timedelta normalises:
\* days (floor) and the milliseconds within the day.
Span(x) == [days |-> x \div MsPerDay, ms |-> x % MsPerDay, err |-> "none"]

OverflowSpan == [days |-> 0, ms |-> 0, err |-> "OverflowError"]

InRange(days) == MinDay <= days /\ days <= MaxDay

\* a delta one day below the range can still be carried back into it by the
\* time it is added to; anything further out cannot
CanReach(days) == MinDay - 1 <= days /\ days <= MaxDay

\* span * g**k by k multiplications; once the span has left the range of
\* datetime it only moves further out, and time + delta raises OverflowError
RECURSIVE Scale(_, _, _)
Scale(span, g, k) ==
    IF span.err # "none" \/ k = 0 \/ g = 1 \/ (span.days = 0 /\ span.ms = 0) THEN span
    ELSE LET x == span.ms * g
             d == span.days * g + x \div MsPerDay
         IN  IF ~CanReach(d) THEN OverflowSpan
             ELSE Scale([days |-> d, ms |-> x % MsPerDay, err |-> "none"], g, k - 1)

\* delay * growth**ms as a timedelta: growth**ms overflows the float first
DelaySpan(d, g, ms) ==
    IF g >= 2 /\ ms >= FloatMaxExp[g] THEN OverflowSpan
    ELSE Scale(Span(d), g, ms)

\* time + delta for time = 1900-01-01 plus ms milliseconds
AddSpan(ms, span) ==
    IF span.err # "none" THEN span
    ELSE LET x == ms + span.ms
             d == span.days + x \div MsPerDay
         IN  IF InRange(d) THEN [days |-> d, ms |-> x % MsPerDay, err |-> "none"]
             ELSE OverflowSpan

\* dt.strftime("%H:%M:%S,%f")
strftime(msOfDay) ==
    Fmt2(msOfDay \div 3600000) \o <<Colon>> \o Fmt2((msOfDay \div 60000) % 60)
      \o <<Colon>> \o Fmt2((msOfDay \div 1000) % 60) \o <<Comma>>
      \o Fmt3(msOfDay % 1000) \o <<Zero, Zero, Zero>>

\* s[:-3]
DropLast3(s) == SubSeq(s, 1, Len(s) - 3)

Failed(e) == [err |-> e, text |-> <<>>]
Returned(t) == [err |-> "none", text |-> t]

\* a plausible slip: the slice that cuts microseconds down to milliseconds
\* is forgotten
get_delayed_time_noslice(time_str, d, g) ==
    LET time == strptime(time_str)
    IN  IF time.err # "none" THEN Failed(time.err)
        ELSE LET sum == AddSpan(calc_ms(time), DelaySpan(d, g, calc_ms(time)))
             IN  IF sum.err # "none" THEN Failed(sum.err)
                 ELSE Returned(strftime(sum.ms))

get_delayed_time(time_str, d, g) ==
    LET time == strptime(time_str)
    IN  IF time.err # "none" THEN Failed(time.err)
        ELSE LET sum == AddSpan(calc_ms(time), DelaySpan(d, g, calc_ms(time)))
             IN  IF sum.err # "none" THEN Failed(sum.err)
                 ELSE Returned(DropLast3(strftime(sum.ms)))

-----------------------------------------------------------------------------
(* Files and paths *)

SUPP_SUB_EXTS == {".srt"}

\* A path is [dir, stem, ext]: dir "" is a relative path (a bare file name),
\* dir "." the current directory, stem "" a path that names a directory.
\* A file id is the path of a file with its directory made absolute.
Dirs == {"/a", "/b", "/c"}

DirPath(d) == [dir |-> d, stem |-> "", ext |-> ""]
FilePath(d, s, e) == [dir |-> d, stem |-> s, ext |-> e]

Abs(p, wd) == [p EXCEPT !.dir = IF p.dir \in {"", "."} THEN wd ELSE p.dir]

isfile(p, fsys, wd) == p.stem # "" /\ Abs(p, wd) \in DOMAIN fsys
isdir(p, wd) == p.stem = "" /\ Abs(p, wd).dir \in Dirs

\* os.path.splitext(p)[1]
splitext1(p) == p.ext

\* os.listdir(p): the names of the entries, without the directory
listdir(p, fsys, wd) ==
    {[f EXCEPT !.dir = ""] : f \in {g \in DOMAIN fsys : g.dir = Abs(p, wd).dir}}

\* every order in which a set can be listed
Orders(S) ==
    {q \in [1..Cardinality(S) -> S] : \A i, j \in 1..Cardinality(S) : i # j => q[i] # q[j]}

\* a plausible slip: the extension filter is left out
get_sub_files_nofilter(t, fsys, wd) ==
    IF isfile(t, fsys, wd) THEN {[none |-> FALSE, files |-> <<t>>]}
    ELSE IF isdir(t, wd)
    THEN {[none |-> FALSE, files |-> q] : q \in Orders(listdir(t, fsys, wd))}
    ELSE {[none |-> TRUE, files |-> <<>>]}

\* get_sub_files(tgt): the lists it can return (os.listdir's order is
\* arbitrary), or None
get_sub_files(t, fsys, wd) ==
    IF isfile(t, fsys, wd) THEN {[none |-> FALSE, files |-> <<t>>]}
    ELSE IF isdir(t, wd)
    THEN {[none |-> FALSE, files |-> q] :
            q \in Orders({fn \in listdir(t, fsys, wd) : splitext1(fn) \in SUPP_SUB_EXTS})}
    ELSE {[none |-> TRUE, files |-> <<>>]}

\* get_args' check of the target: parser.error exits the process
UnsupportedTarget(t, fsys, wd) ==
    isfile(t, fsys, wd) /\ splitext1(t) \notin SUPP_SUB_EXTS

-----------------------------------------------------------------------------
(* sync_sub *)

\* re.search(...): the position of the first match, 0 for None
Search(data) == LET all == FindAll(data) IN IF all = <<>> THEN 0 ELSE all[1]

\* a plausible slip: > instead of >=
is_delay_valid_strict(d, data) ==
    LET i == Search(data)
    IN  IF i = 0 THEN [err |-> "AttributeError", valid |-> FALSE]
        ELSE LET first_sub == strptime(Group(data, i))
             IN  IF first_sub.err # "none" THEN [err |-> first_sub.err, valid |-> FALSE]
                 ELSE [err |-> "none", valid |-> calc_ms(first_sub) + d > 0]

is_delay_valid(d, data) ==
    LET i == Search(data)
    IN  IF i = 0 THEN [err |-> "AttributeError", valid |-> FALSE]
        ELSE LET first_sub == strptime(Group(data, i))
             IN  IF first_sub.err # "none" THEN [err |-> first_sub.err, valid |-> FALSE]
                 ELSE [err |-> "none", valid |-> calc_ms(first_sub) + d >= 0]

\* re.sub(pattern, repl_fun, data) from the k-th match on, the matches being
\* at the positions ps: the text between the matches is copied, each match
\* is replaced by what repl_fun returns for it, and the first exception
\* repl_fun raises ends it
RECURSIVE SubFrom(_, _, _, _, _)
SubFrom(data, ps, k, d, g) ==
    LET from == IF k = 1 THEN 1 ELSE ps[k - 1] + TimecodeLen
    IN  IF k > Len(ps) THEN Returned(SubSeq(data, from, Len(data)))
        ELSE Bind(get_delayed_time(Group(data, ps[k]), d, g),
                  LAMBDA r : IF r.err # "none" THEN r
                             ELSE Bind(SubFrom(data, ps, k + 1, d, g),
                                       LAMBDA rest :
                                           IF rest.err # "none" THEN rest
                                           ELSE Returned(SubSeq(data, from, ps[k] - 1)
                                                           \o r.text \o rest.text)))

ReSub(data, d, g) == Bind(FindAll(data), LAMBDA ps : SubFrom(data, ps, 1, d, g))

\* a plausible slip: mode "w", which empties the file as it is opened
OpenTruncating(old) == <<>>

\* open(file, "r+"): the stored bytes are kept
OpenForUpdate(old) == old

\* the bytes written at offset 0 of a file holding old, with no truncation
WriteAtStart(old, bytes) == bytes \o SubSeq(old, Len(bytes) + 1, Len(old))

\* sync_sub(file, delay, growth): what it printed, the exception that left
\* it (if any), the guard's verdict, the text it read (before), the text
\* re.sub returned (text) and the bytes the file holds afterwards (after)
sync_sub(file, d, g, fsys, wd) ==
    LET id == Abs(file, wd)
        syncing == [msg |-> "Syncing file", file |-> file]
    IN  IF id \notin DOMAIN fsys
        THEN [exc |-> "FileNotFoundError", guard |-> "none", wrote |-> FALSE,
              id |-> id, before |-> <<>>, after |-> <<>>, text |-> <<>>,
              printed |-> <<syncing>>]
        ELSE
        Bind(fsys[id], LAMBDA stored :
        Bind(ReadText(stored), LAMBDA rd :
        IF rd.err # "none"
        THEN [exc |-> rd.err, guard |-> "none", wrote |-> FALSE,
              id |-> id, before |-> <<>>, after |-> stored, text |-> <<>>,
              printed |-> <<syncing>>]
        ELSE
        Bind(rd.text, LAMBDA data :
        Bind(is_delay_valid(d, data), LAMBDA v :
        IF v.err # "none"
        THEN [exc |-> v.err, guard |-> "none", wrote |-> FALSE,
              id |-> id, before |-> data, after |-> stored, text |-> <<>>,
              printed |-> <<syncing>>]
        ELSE IF ~v.valid
        THEN [exc |-> "none", guard |-> "reject", wrote |-> FALSE,
              id |-> id, before |-> data, after |-> stored, text |-> <<>>,
              printed |-> <<syncing, [msg |-> "Error: Delay over- or underflow", file |-> file]>>]
        ELSE
        Bind(ReSub(data, d, g), LAMBDA r :
        IF r.err # "none"
        THEN [exc |-> r.err, guard |-> "accept", wrote |-> FALSE,
              id |-> id, before |-> data, after |-> OpenForUpdate(stored),
              text |-> <<>>, printed |-> <<syncing>>]
        ELSE [exc |-> "none", guard |-> "accept", wrote |-> TRUE,
              id |-> id, before |-> data,
              after |-> WriteAtStart(OpenForUpdate(stored), WrittenBytes(r.text)),
              text |-> r.text, printed |-> <<syncing>>])))))

\* str.lower() of the answers the model types
Lower(a) == IF a = "Y" THEN "y" ELSE a

\* a plausible slip: anything but "n" counts as yes
confirm_sync_lenient(a) == Lower(a) # "n"

\* confirm_sync's return value for the typed answer a
confirm_sync(a) == Lower(a) = "y"

-----------------------------------------------------------------------------
(* The documents, models and targets the runs are started with *)

\* number of .srt files in directory /a
MaxFiles == 2

Stems == <<"f1", "f2", "f3", "f4">>

\* the text HH:MM:SS,mmm with the given field values
TC(h, m, s, f) == Fmt2(h) \o <<Colon>> \o Fmt2(m) \o <<Colon>> \o Fmt2(s) \o <<Comma>> \o Fmt3(f)

Arrow == Str(<<" ", "-", "-", ">", " ">>)

\* no timecode at all
DocNoTc == Str(<<"x">>)
\* one ordinary cue
DocCue == Str(<<"1", "\n">>) \o TC(0, 0, 3, 0) \o Arrow \o TC(0, 0, 5, 0)
            \o Str(<<"\n", "H", "i">>)
\* a cue at the end of the day followed by an occurrence smaller than the first
DocBack == TC(23, 59, 59, 500) \o Str(<<"x">>) \o TC(0, 0, 1, 0)
\* the pattern matches, but the first occurrence is no time of day
DocBadFirst == TC(25, 0, 0, 0) \o Str(<<"x">>)
\* the pattern matches, but a later occurrence is no time of day
DocBadLater == TC(0, 0, 4, 0) \o Str(<<"x">>) \o TC(0, 61, 0, 0)
\* times of a few milliseconds, with digits and separators next to them
DocTiny == Str(<<"7">>) \o TC(0, 0, 0, 2) \o Str(<<"7", ":">>) \o TC(0, 0, 0, 3)

\* the ordinary cue of a file whose lines end in "\r\n"
DocCrLf == Str(<<"1", "\r", "\n">>) \o TC(0, 0, 3, 0) \o Arrow \o TC(0, 0, 5, 0)
             \o Str(<<"\r", "\n", "H", "i", "\r", "\n">>)
\* the text 0d:00:00,000 whose second hour digit is the character d
HourTc(d) == <<Zero, d, Colon>> \o Fmt2(0) \o <<Colon>> \o Fmt2(0) \o <<Comma>> \o Fmt3(0)
\* three o'clock written with an Arabic-Indic digit
DocWide == Encode(HourTc(ArabicIndicZero + 3) \o Str(<<" ", "x">>))

Docs == {DocNoTc, DocCue, DocBack, DocBadFirst, DocBadLater, DocTiny, DocCrLf,
         DocWide}

\* <<delay, growth>>
Models == {<<-5000, 2>>, <<-3000, 1>>, <<-1, 2>>, <<1000, 1>>, <<1, 3>>}

SrtA == {FilePath("/a", Stems[i], ".srt") : i \in 1..MaxFiles}
TxtA == FilePath("/a", "n", ".txt")
SrtB == FilePath("/b", "f1", ".srt")
TxtC == FilePath("/c", "n", ".txt")

FileIds == SrtA \cup {TxtA, SrtB, TxtC}

\* the documents of the .srt files of /a after the first
RestDocs == {DocCue, DocBadLater, DocCrLf}

\* the file systems a run starts on: the first .srt file of /a holds any
\* document, the others one of RestDocs
FileSystems ==
    {[f \in FileIds |-> IF f \in SrtA THEN c[f] ELSE DocCue] :
        c \in {b \in [SrtA -> Docs] :
                  \A f \in SrtA : f.stem # Stems[1] => b[f] \in RestDocs}}

Targets == {DirPath("/a"), DirPath("."), DirPath("/c"),
            FilePath("", "f1", ".srt"), FilePath("/a", "n", ".txt"),
            FilePath("/a", "zz", ".srt")}

WorkDirs == {"/a", "/b"}

Answers == {"y", "Y", "n", ""}

-----------------------------------------------------------------------------
(* subsync.main as a state machine *)

NoProbe == [kind |-> "none"]

Init ==
    /\ fs \in FileSystems
    /\ fs0 = fs
    /\ cwd \in WorkDirs
    /\ tgt \in Targets
    /\ \E m \in Models : delay = m[1] /\ growth = m[2]
    /\ subs = <<>>
    /\ idx = 0
    /\ pc = "start"
    /\ answer = "none"
    /\ log = <<>>
    /\ out = <<>>
    /\ cin = NoProbe /\ cout = NoProbe
    /\ ein = NoProbe /\ eout = NoProbe

\* get_args rejects a file of unsupported format: parser.error, exit status 2
UsageError ==
    /\ pc = "start"
    /\ UnsupportedTarget(tgt, fs, cwd)
    /\ pc' = "exit_usage"
    /\ out' = out \o <<[msg |-> "is of unsupported subtitle format", file |-> tgt]>>
    /\ UNCHANGED <<fs, fs0, cwd, tgt, delay, growth, subs, idx, answer, log>>
    /\ UNCHANGED <<codecVars, estVars>>

\* main: get_sub_files gives None or an empty list
NoSubtitles ==
    /\ pc = "start"
    /\ ~UnsupportedTarget(tgt, fs, cwd)
    /\ \E r \in get_sub_files(tgt, fs, cwd) :
          /\ r.files = <<>>
          /\ subs' = r.files
    /\ pc' = "returned_nofiles"
    /\ out' = out \o <<[msg |-> "No subtitles to synchronise.", file |-> tgt]>>
    /\ UNCHANGED <<fs, fs0, cwd, tgt, delay, growth, idx, answer, log>>
    /\ UNCHANGED <<codecVars, estVars>>

\* main: get_sub_files gives a working set; confirm_sync prints it and asks
Resolve ==
    /\ pc = "start"
    /\ ~UnsupportedTarget(tgt, fs, cwd)
    /\ \E r \in get_sub_files(tgt, fs, cwd) :
          /\ r.files # <<>>
          /\ subs' = r.files
          /\ out' = out \o <<[msg |-> "The following files will be synchronised", file |-> tgt]>>
                        \o [i \in 1..Len(r.files) |-> [msg |-> "file", file |-> r.files[i]]]
    /\ pc' = "confirm"
    /\ UNCHANGED <<fs, fs0, cwd, tgt, delay, growth, idx, answer, log>>
    /\ UNCHANGED <<codecVars, estVars>>

\* the user answers the prompt; main returns unless confirm_sync is true
Confirm ==
    /\ pc = "confirm"
    /\ \E a \in Answers :
          /\ answer' = a
          /\ IF confirm_sync(a)
             THEN pc' = "apply" /\ idx' = 1
             ELSE pc' = "returned_declined" /\ idx' = idx
    /\ UNCHANGED <<fs, fs0, cwd, tgt, delay, growth, subs, log, out>>
    /\ UNCHANGED <<codecVars, estVars>>

\* one iteration of main's for loop: sync_sub(subs[idx], delay, growth); an
\* exception sync_sub raises is caught nowhere and ends the process
Apply ==
    /\ pc = "apply"
    /\ idx <= Len(subs)
    /\ \E r \in {sync_sub(subs[idx], delay, growth, fs, cwd)} :
           /\ log' = Append(log, [file |-> subs[idx], id |-> r.id, exc |-> r.exc,
                                   guard |-> r.guard, wrote |-> r.wrote,
                                   before |-> r.before, text |-> r.text])
           /\ out' = out \o r.printed
           /\ fs' = IF r.id \in DOMAIN fs THEN [fs EXCEPT ![r.id] = r.after] ELSE fs
           /\ IF r.exc # "none"
              THEN pc' = "crashed" /\ idx' = idx
              ELSE /\ idx' = idx + 1
                   /\ pc' = IF idx + 1 > Len(subs) THEN "returned_done" ELSE "apply"
    /\ UNCHANGED <<fs0, cwd, tgt, delay, growth, subs, answer>>
    /\ UNCHANGED <<codecVars, estVars>>

Next == UsageError \/ NoSubtitles \/ Resolve \/ Confirm \/ Apply

Spec == Init /\ [][Next]_vars

-----------------------------------------------------------------------------
(* The timecode codec on its own: what the code writes for a value, and what
   it reads from a text *)

\* the batch variables of a run that is not a batch run
BatchIdle ==
    /\ fs = <<>> /\ fs0 = <<>> /\ cwd = "/a" /\ tgt = DirPath(".")
    /\ delay = 0 /\ growth = 1 /\ subs = <<>> /\ idx = 0 /\ pc = "off"
    /\ answer = "none" /\ log = <<>> /\ out = <<>>

Midnight == TC(0, 0, 0, 0)

\* the text the code writes for the value ms: the delayed time of midnight
\* under a constant delay of ms
FormatMs(ms) == get_delayed_time(Midnight, ms, 1)

\* the value the code reads from a timecode text
ParseText(t) ==
    LET time == strptime(t)
    IN  [err |-> time.err, ms |-> IF time.err = "none" THEN calc_ms(time) ELSE 0]

CodecHours == {0, 1, 23, 24, 25, 98}
CodecMs ==
    {((h * 60 + m) * 60 + s) * 1000 + f :
        h \in CodecHours, m \in {0, 59}, s \in {0, 59}, f \in {0, 1, 999}}

CodecTexts ==
    {TC(h, m, s, f) : h \in {0, 23, 24, 99}, m \in {0, 59, 60}, s \in {0, 59, 60, 99},
                      f \in {0, 999}}
      \cup {HourTc(d) : d \in {ArabicIndicZero, ArabicIndicZero + 3,
                                ExtArabicIndicZero + 3, DevanagariZero + 3,
                                FullwidthZero + 3, MathBoldZero + 3}}
      \cup {<<Zero + 2, ArabicIndicZero + 3, Colon>> \o Fmt2(0) \o <<Colon>> \o Fmt2(0)
               \o <<Comma>> \o Fmt3(0),
            Fmt2(0) \o <<Colon>> \o Fmt2(0) \o <<Colon>> \o Fmt2(0)
               \o <<Comma, Zero, Zero, FullwidthZero + 3>>}

InitCodec ==
    /\ BatchIdle
    /\ cin \in {[kind |-> "ms", ms |-> n, text |-> <<>>] : n \in CodecMs}
            \cup {[kind |-> "text", ms |-> 0, text |-> t] : t \in CodecTexts}
    /\ cout = NoProbe
    /\ ein = NoProbe /\ eout = NoProbe

\* format a value, then parse what was written
FormatThenParse ==
    /\ cin.kind = "ms" /\ cout = NoProbe
    /\ LET w == FormatMs(cin.ms)
           r == ParseText(w.text)
       IN  cout' = [kind |-> "ms",
                    err |-> IF w.err # "none" THEN w.err ELSE r.err,
                    text |-> w.text,
                    ms |-> r.ms]
    /\ UNCHANGED <<batchVars, cin, estVars>>

\* parse a text and write the value back with no delay
ParseThenFormat ==
    /\ cin.kind = "text" /\ cout = NoProbe
    /\ LET w == get_delayed_time(cin.text, 0, 1)
       IN  cout' = [kind |-> "text", err |-> w.err, text |-> w.text,
                    ms |-> ParseText(cin.text).ms]
    /\ UNCHANGED <<batchVars, cin, estVars>>

NextCodec == FormatThenParse \/ ParseThenFormat

SpecCodec == InitCodec /\ [][NextCodec]_vars

-----------------------------------------------------------------------------
(* delaycalc *)

\* a plausible slip: the last occurrence instead of the second-to-last
calc_delay_last(data, time1, time2) ==
    LET found == FindAll(data)
        n == Len(found)
        none == [err |-> "none", delay |-> 0, delay2 |-> 0, root |-> 0]
    IN  IF n < 1 THEN [none EXCEPT !.err = "IndexError"]
        ELSE
        LET t1 == strptime(Group(data, found[1]))
            t2 == strptime(Group(data, found[n]))
        IN  IF t1.err # "none" THEN [none EXCEPT !.err = t1.err]
            ELSE IF t2.err # "none" THEN [none EXCEPT !.err = t2.err]
            ELSE
            LET delay1 == time1 - calc_ms(t1)
                delay2 == time2 - calc_ms(t2)
                res == [none EXCEPT !.delay = delay1, !.delay2 = delay2,
                                    !.root = time1 - time2]
            IN  IF delay2 = 0 \/ time1 = time2 THEN [res EXCEPT !.err = "ZeroDivisionError"]
                ELSE IF delay1 = 0 /\ time1 - time2 < 0 THEN [res EXCEPT !.err = "ValueError"]
                ELSE IF (delay1 < 0) # (delay2 < 0) /\ delay1 # 0
                        /\ time1 - time2 \notin {1, -1}
                THEN [res EXCEPT !.err = "ValueError"]
                ELSE res

\* calc_delay(data, time1, time2).  The growth it returns is the real number
\* (delay / delay2) ** (1 / root), kept as its three integers; err names the
\* exception that leaves calc_delay instead.
\*   subs[0]                       IndexError with no occurrence
\*   strptime                      ValueError
\*   subs[-2]                      IndexError with one occurrence
\*   delay1 / delay2, 1 / (t1-t2)  ZeroDivisionError
\*   math.pow(0.0, negative)       ValueError
\*   math.pow(negative, fraction)  ValueError
calc_delay(data, time1, time2) ==
    LET found == FindAll(data)
        n == Len(found)
        none == [err |-> "none", delay |-> 0, delay2 |-> 0, root |-> 0]
    IN  IF n < 1 THEN [none EXCEPT !.err = "IndexError"]
        ELSE
        LET t1 == strptime(Group(data, found[1]))
            t2 == strptime(Group(data, found[n - 1]))
        IN  IF t1.err # "none" THEN [none EXCEPT !.err = t1.err]
            ELSE IF n < 2 THEN [none EXCEPT !.err = "IndexError"]
            ELSE IF t2.err # "none" THEN [none EXCEPT !.err = t2.err]
            ELSE
            LET delay1 == time1 - calc_ms(t1)
                delay2 == time2 - calc_ms(t2)
                res == [none EXCEPT !.delay = delay1, !.delay2 = delay2,
                                    !.root = time1 - time2]
            IN  IF delay2 = 0 \/ time1 = time2 THEN [res EXCEPT !.err = "ZeroDivisionError"]
                ELSE IF delay1 = 0 /\ time1 - time2 < 0 THEN [res EXCEPT !.err = "ValueError"]
                ELSE IF (delay1 < 0) # (delay2 < 0) /\ delay1 # 0
                        /\ time1 - time2 \notin {1, -1}
                THEN [res EXCEPT !.err = "ValueError"]
                ELSE res

Magnitude(x) == IF x < 0 THEN -x ELSE x

\* (2 * b + 1) * d for 0 <= b, d < 2**31 as high * 2**44 + low with
\* 0 <= low < 2**44, by digits of 11 bits so that no intermediate value
\* leaves the 32-bit integers; exact says that low is 0
Limb == 2048
OddMultiple(b, d) ==
    LET b0 == b % Limb
        b1 == (b \div Limb) % Limb
        b2 == b \div (Limb * Limb)
        d0 == d % Limb
        d1 == (d \div Limb) % Limb
        d2 == d \div (Limb * Limb)
        r0 == 2 * (b0 * d0) + d0
        r1 == 2 * (b0 * d1 + b1 * d0) + d1 + (r0 \div Limb)
        r2 == 2 * (b0 * d2 + b1 * d1 + b2 * d0) + d2 + (r1 \div Limb)
        r3 == 2 * (b1 * d2 + b2 * d1) + (r2 \div Limb)
    IN  [high |-> 2 * (b2 * d2) + (r3 \div Limb),
         exact |-> r0 % Limb = 0 /\ r1 % Limb = 0 /\ r2 % Limb = 0 /\ r3 % Limb = 0]

\* dist * 2**k / d, rounded to the nearest integer and to the even one of
\* two that are as near, is at most b; k is 52 or 53.  The quotient is at
\* most b when dist * 2**(k+1) is below (2 * b + 1) * d, or equal to it with
\* b even.
QuotientAtMost(dist, k, d, b) ==
    /\ dist < Limb
    /\ \E m \in {OddMultiple(b, d)} :
          \E c \in {dist * (IF k = 52 THEN 512 ELSE 1024)} :
             \/ c < m.high
             \/ c = m.high /\ (~m.exact \/ b % 2 = 0)

\* the real power is above 1: a base between 0 and 1 under a negative
\* exponent, or a base above 1 under a positive one
PowerAboveOne(r) ==
    /\ (r.delay < 0) = (r.delay2 < 0)
    /\ \/ Magnitude(r.delay) < Magnitude(r.delay2) /\ r.root < 0
       \/ Magnitude(r.delay) > Magnitude(r.delay2) /\ r.root > 0

\* math.pow rounds a power other than 1 to the double 1.0.  The base
\* delay / delay2 is a double: 1 + u * 2**-52 above 1 and 1 - u * 2**-53
\* below it, u being the quotient |delay - delay2| * 2**52 / |delay2|
\* (2**53 below 1) rounded to an integer.  The power is
\* exp(ln(base) / root), and it is nearer to 1.0 than to the double next to
\* 1.0, which is 2**-52 above and 2**-53 below, in these cases:
\*   base above 1, root above 0 (power above 1):   2 * u <= |root|
\*   base above 1, root below 0 (power below 1):   4 * u <= |root|
\*   base below 1, root above 0 (power below 1):   2 * u <  |root|
\*   base below 1, root below 0 (power above 1):       u <  |root|
\* This holds for the results of calc_delay on integers of 32 bits, where
\* |root| is below 2**27 whenever u is that small: the millisecond values
\* of two timecodes are less than a day apart.
RoundsToOne(r) ==
    LET a1 == Magnitude(r.delay)
        a2 == Magnitude(r.delay2)
        root == Magnitude(r.root)
    IN  /\ (r.delay < 0) = (r.delay2 < 0)
        /\ r.delay # 0
        /\ a1 # a2
        /\ IF a1 > a2
           THEN QuotientAtMost(a1 - a2, 52, a2,
                               IF r.root > 0 THEN root \div 2 ELSE root \div 4)
           ELSE QuotientAtMost(a2 - a1, 53, a2,
                               IF r.root > 0 THEN (root - 1) \div 2 ELSE root - 1)

\* the returned growth is exactly 1.0: the base of the power is 1, or the
\* power is rounded to 1.0
GrowthIsOne(r) == r.err = "none" /\ (r.delay = r.delay2 \/ RoundsToOne(r))

\* the returned growth is above 1.0
GrowthAboveOne(r) ==
    /\ r.err = "none"
    /\ PowerAboveOne(r)
    /\ ~RoundsToOne(r)

\* get_args of delaycalc: the reason parser.error is called with, or "none"
EstArgsError(a) ==
    IF ~a.isfile THEN "is not a file"
    ELSE IF a.ext \notin SUPP_SUB_EXTS THEN "is of unsupported subtitle format"
    ELSE IF a.time1 < 0 \/ a.time2 < 0 THEN "Times can't be less than 0."
    ELSE IF ~(a.time1 < a.time2) THEN "time1 has to be before time2."
    ELSE "none"

\* the start and the end of one cue, as in the scenario of the design notes
DocOneCue == TC(0, 0, 10, 0) \o Arrow \o TC(0, 5, 0, 0)
\* two cues: starts at 10 s and 5 min
DocTwoCues == TC(0, 0, 10, 0) \o Arrow \o TC(0, 0, 12, 0) \o <<LF>>
                \o TC(0, 5, 0, 0) \o Arrow \o TC(0, 5, 2, 0)
DocOneTc == Str(<<"1", "\n">>) \o TC(0, 0, 10, 0)
\* the second-to-last occurrence is no time of day
DocBadCue == TC(0, 0, 10, 0) \o Arrow \o TC(0, 0, 12, 0) \o <<LF>>
               \o TC(24, 0, 0, 0) \o Arrow \o TC(0, 5, 2, 0)
\* the two cues on lines that end in "\r\n", the minute of the second
\* start written with an Arabic-Indic digit
DocTwoCuesCrLf ==
    Encode(TC(0, 0, 10, 0) \o Arrow \o TC(0, 0, 12, 0) \o <<CR, LF>>
             \o <<Zero, Zero, Colon, Zero, ArabicIndicZero + 5, Colon>> \o Fmt2(0)
             \o <<Comma>> \o Fmt3(0)
             \o Arrow \o TC(0, 5, 2, 0) \o <<CR, LF>>)
\* bytes that are no UTF-8 text: the second byte of a character without its
\* first
DocNotUtf8 == <<163>> \o DocOneCue
\* a byte no encoding holds, 0xFF, after the two cues
DocBadByte == DocTwoCues \o <<255>>
\* the two cues after an eighth note, U+266A
DocNote == Encode(<<9834, LF>> \o DocTwoCues)

EstDocs == {DocNoTc, DocOneTc, DocOneCue, DocTwoCues, DocBadFirst, DocBadCue,
            DocTwoCuesCrLf, DocNotUtf8, DocBadByte, DocNote}
EstTimes1 == {-1, 0, 9000, 10000, 11000}
EstTimes2 == {10000, 11000, 299000, 300000, 301000}

InitEst ==
    /\ BatchIdle
    /\ cin = NoProbe /\ cout = NoProbe
    /\ ein \in {[kind |-> "args", isfile |-> f, ext |-> e, data |-> d, time1 |-> a, time2 |-> b] :
                   f \in BOOLEAN, e \in {".srt", ".txt"}, d \in EstDocs,
                   a \in EstTimes1, b \in EstTimes2}
    /\ eout = NoProbe

\* get_args refuses the arguments and the process exits
EstUsageError ==
    /\ ein.kind = "args" /\ eout = NoProbe
    /\ EstArgsError(ein) # "none"
    /\ eout' = [kind |-> "exit_usage", msg |-> EstArgsError(ein)]
    /\ UNCHANGED <<batchVars, codecVars, ein>>

\* main reads the file, calls calc_delay and prints the result; an
\* exception from fr.read or calc_delay ends the process
EstRun ==
    /\ ein.kind = "args" /\ eout = NoProbe
    /\ EstArgsError(ein) = "none"
    /\ \E rd \in {ReadText(ein.data)} :
          \E r \in {calc_delay(rd.text, ein.time1, ein.time2)} :
             eout' = IF rd.err # "none"
                     THEN [kind |-> "crashed", err |-> rd.err, delay |-> 0,
                           delay2 |-> 0, root |-> 0]
                     ELSE [kind |-> IF r.err = "none" THEN "printed" ELSE "crashed",
                           err |-> r.err, delay |-> r.delay, delay2 |-> r.delay2,
                           root |-> r.root]
    /\ UNCHANGED <<batchVars, codecVars, ein>>

NextEst == EstUsageError \/ EstRun

SpecEst == InitEst /\ [][NextEst]_vars

-----------------------------------------------------------------------------
(* Properties of the batch run *)

LogIdx == 1..Len(log)

YesAnswers == {"y", "Y"}

Ended == pc \in {"returned_done", "returned_declined", "returned_nofiles",
                  "exit_usage", "crashed"}

\* the millisecond value of the first timecode occurrence of data
FirstMs(data) == calc_ms(strptime(Group(data, Search(data))))

\* the parsed values of the occurrences of data, in order
RECURSIVE ValuesAt(_, _)
ValuesAt(data, ps) ==
    IF ps = <<>> THEN <<>>
    ELSE <<calc_ms(strptime(Group(data, Head(ps))))>> \o ValuesAt(data, Tail(ps))

\* subtitle_ms + delay * growth**subtitle_ms is below zero
DelayedNegative(ms, d, g) ==
    LET sum == AddSpan(ms, DelaySpan(d, g, ms)) IN sum.err = "none" /\ sum.days < 0

\* data with every timecode occurrence removed
RECURSIVE StripFrom(_, _)
StripFrom(data, i) ==
    IF i > Len(data) THEN <<>>
    ELSE IF MatchesAt(data, i) THEN StripFrom(data, i + TimecodeLen)
    ELSE <<data[i]>> \o StripFrom(data, i + 1)

Strip(data) == StripFrom(data, 1)

\* C1: a failure on one document of the working set (guard rejection, no
\* timecode, a matched timecode that does not parse) never aborts the batch:
\* the run goes on, and when it has ended every document of the working set
\* has been processed.
C1_FailureNeverAbortsBatch ==
    \A i \in LogIdx :
        (log[i].guard = "reject" \/ log[i].exc \in {"AttributeError", "ValueError"})
            => /\ pc \in {"apply", "returned_done"}
               /\ (Ended => Len(log) = Len(subs))

\* C2: nothing is written before the user has accepted the confirmation,
\* and after any other answer the run ends at once with every file as it was.
C2_NoWriteWithoutConfirmation ==
    /\ (log # <<>> \/ fs # fs0) => answer \in YesAnswers
    /\ pc = "apply" => answer \in YesAnswers
    /\ (answer # "none" /\ answer \notin YesAnswers)
          => pc = "returned_declined" /\ fs = fs0 /\ log = <<>>

C2_Witness ==
    \E i \in LogIdx : log[i].wrote /\ fs[log[i].id] # fs0[log[i].id] /\ answer = "Y"

\* the first timecode occurrence of data exists and is a time of day
HasFirstMs(data) ==
    Search(data) # 0 /\ strptime(Group(data, Search(data))).err = "none"

\* C3: the guard gives its verdict on every document that was read and whose
\* first timecode occurrence has a millisecond value, and it rejects exactly
\* when that value plus the delay is below zero, whatever the growth factor.
C3_GuardRejectsExactlyUnderflow ==
    \A i \in LogIdx :
        /\ (log[i].guard \in {"accept", "reject"})
              <=> (log[i].id \in DOMAIN fs0 /\ HasFirstMs(log[i].before))
        /\ log[i].guard \in {"accept", "reject"}
              => (log[i].guard = "reject" <=> FirstMs(log[i].before) + delay < 0)

C3_Witness ==
    \E i \in LogIdx :
        /\ log[i].guard = "reject"
        /\ FirstMs(log[i].before) = 3000
        /\ delay = -5000
        /\ growth = 2

\* C4: a document whose processing was rejected or raised holds what it
\* held before, and every document holds either its old text or the whole
\* resynchronised text.
C4_FailedDocumentUntouched ==
    /\ \A i \in LogIdx :
          (~log[i].wrote /\ log[i].id \in DOMAIN fs) => fs[log[i].id] = fs0[log[i].id]
    /\ \A f \in DOMAIN fs :
          \/ fs[f] = fs0[f]
          \/ \E i \in LogIdx :
                /\ log[i].id = f /\ log[i].wrote
                /\ ReSub(log[i].before, delay, growth).err = "none"
                /\ LET new == Encode(ReSub(log[i].before, delay, growth).text)
                   IN  /\ Len(new) <= Len(fs[f])
                       /\ SubSeq(fs[f], 1, Len(new)) = new

C4_Witness ==
    \E i \in LogIdx :
        /\ log[i].guard = "accept"
        /\ log[i].exc \in {"ValueError", "OverflowError"}
        /\ fs[log[i].id] = fs0[log[i].id]
        /\ pc = "crashed"

\* C5: no document is written when the delayed value of one of its
\* occurrences is below zero.
C5_NegativeTimecodeNeverWritten ==
    \A i \in LogIdx :
        log[i].wrote =>
            LET vs == ValuesAt(log[i].before, FindAll(log[i].before))
            IN  \A k \in 1..Len(vs) : ~DelayedNegative(vs[k], delay, growth)

\* C8: the text resync returns has its timecode occurrences at the same
\* positions as its input, and the two are equal once the occurrences are
\* removed.
C8_OnlyTimecodesChange ==
    \A i \in LogIdx :
        log[i].wrote =>
            /\ FindAll(log[i].text) = FindAll(log[i].before)
            /\ Strip(log[i].text) = Strip(log[i].before)

C8_Witness ==
    \E i \in LogIdx :
        /\ log[i].wrote
        /\ log[i].before = DocTiny
        /\ log[i].text # log[i].before
        /\ Len(FindAll(log[i].text)) = 2

\* the names of the supported entries of the target directory
SupportedEntries ==
    {[f EXCEPT !.dir = ""] :
        f \in {g \in DOMAIN fs0 : g.dir = Abs(tgt, cwd).dir /\ g.ext = ".srt"}}

SubsSet == {subs[i] : i \in 1..Len(subs)}

\* C10: a file target gives the working set of that file, and is refused
\* before anything runs if its format is unsupported; a directory target
\* gives exactly its supported entries, the others appearing in no
\* sync_sub call; any other target, or an empty working set, ends the run
\* with "No subtitles to synchronise." and nothing written.
C10_ResolveWorkingSet ==
    pc # "start" =>
        /\ (isfile(tgt, fs0, cwd) /\ tgt.ext = ".srt") => subs = <<tgt>>
        /\ (isfile(tgt, fs0, cwd) /\ tgt.ext # ".srt")
              => pc = "exit_usage" /\ log = <<>> /\ fs = fs0
        /\ (isdir(tgt, cwd) /\ SupportedEntries # {})
              => /\ SubsSet = SupportedEntries
                 /\ Len(subs) = Cardinality(SupportedEntries)
                 /\ \A i \in LogIdx : log[i].file \in SupportedEntries
                 /\ pc \notin {"returned_nofiles", "exit_usage"}
        /\ ((~isfile(tgt, fs0, cwd) /\ ~isdir(tgt, cwd))
               \/ (isdir(tgt, cwd) /\ SupportedEntries = {}))
              => /\ pc = "returned_nofiles"
                 /\ out[Len(out)].msg = "No subtitles to synchronise."
                 /\ log = <<>> /\ fs = fs0

C10_Witness ==
    /\ tgt = DirPath("/a")
    /\ pc = "returned_done"
    /\ Len(subs) = MaxFiles
    /\ TxtA \in DOMAIN fs0

-----------------------------------------------------------------------------
(* Properties of the codec *)

\* C6: every value from 0 to 99 hours less a millisecond is read back from
\* the text written for it.
C6_FormatParseRoundTrip ==
    (cout # NoProbe /\ cout.kind = "ms" /\ cin.ms <= 99 * 3600 * 1000 - 1)
        => cout.err = "none" /\ cout.ms = cin.ms

\* C7: every text the pattern matches parses, and is written back unchanged.
C7_ParseFormatRoundTrip ==
    (cout # NoProbe /\ cout.kind = "text" /\ MatchesAt(cin.text, 1))
        => cout.err = "none" /\ cout.text = cin.text

-----------------------------------------------------------------------------
(* Properties of the estimator *)

\* the text the estimator reads from its file
EstText == ReadText(ein.data).text

Scenario9 ==
    /\ ein # NoProbe
    /\ FindAll(EstText) = <<1, 18>>
    /\ Group(EstText, 1) = TC(0, 0, 10, 0)
    /\ Group(EstText, 18) = TC(0, 5, 0, 0)
    /\ ein.time1 = 11000 /\ ein.time2 = 301000
    /\ eout # NoProbe /\ eout.kind # "exit_usage"

\* C9 as stated: on the document with the occurrences 00:00:10,000 and
\* 00:05:00,000 and the anchors 11000 and 301000 the estimator returns the
\* delay 1000 and the growth 1.0, both anchor delays being 1000.
C9_ScenarioGrowthOne ==
    Scenario9 => eout.err = "none" /\ eout.delay = 1000 /\ eout.delay2 = 1000
                 /\ GrowthIsOne(eout)

\* C9 as amended: on that input the estimator returns the delay 1000, takes
\* the first occurrence as the second-to-last too, so that the second anchor
\* delay is 291000, and returns a growth above 1.0.
C9_ScenarioAsComputed ==
    Scenario9 => /\ eout.err = "none"
                 /\ eout.delay = 1000
                 /\ eout.delay2 = 291000
                 /\ eout.root = -290000
                 /\ ~GrowthIsOne(eout)
                 /\ GrowthAboveOne(eout)

C9_Witness == Scenario9 /\ eout.kind = "printed" /\ eout.delay2 = 291000

-----------------------------------------------------------------------------
(* Properties of the stored text *)

\* C11: after a document was synchronised, the file holds exactly the text
\* re.sub returned for the text that was read, and that text takes as many
\* bytes as the file held: nothing of the old content is left behind it and
\* nothing is appended.
C11_StoredTextIsResync ==
    \A i \in LogIdx :
        log[i].wrote =>
            /\ fs[log[i].id] = Encode(log[i].text)
            /\ log[i].text = ReSub(log[i].before, delay, growth).text
            /\ Len(Encode(log[i].text)) = Len(fs0[log[i].id])

-----------------------------------------------------------------------------
(* Properties of the estimator's failures and results *)

\* the parsed values of the occurrences of the estimator's document
EstValues == ValuesAt(EstText, FindAll(EstText))

\* every occurrence the estimator reads is a time of day
EstParses ==
    LET ps == FindAll(EstText)
    IN  /\ Len(ps) >= 2
        /\ strptime(Group(EstText, ps[1])).err = "none"
        /\ strptime(Group(EstText, ps[Len(ps) - 1])).err = "none"

\* time1 minus the first occurrence, time2 minus the second-to-last
EstDelay1 == ein.time1 - EstValues[1]
EstDelay2 == ein.time2 - EstValues[Len(EstValues) - 1]

\* the conditions under which the estimator is to fail
EstMustFail ==
    \/ Len(FindAll(EstText)) < 2
    \/ ein.time1 = ein.time2
    \/ (EstParses /\ EstDelay2 = 0)

\* C12: with fewer than two occurrences, with time1 = time2 or with a second
\* anchor delay of zero, the run of the estimator gives no model, and no
\* step of it changes the document.
C12_EstimatorFailsWithoutModel ==
    [][/\ EstMustFail => eout'.kind # "printed"
       /\ ein'.data = ein.data]_vars

C12_Witness ==
    /\ eout # NoProbe
    /\ eout.kind = "crashed"
    /\ eout.err = "ZeroDivisionError"
    /\ EstParses /\ EstDelay2 = 0
    /\ ein.time1 < ein.time2

-----------------------------------------------------------------------------
(* Two runs on one file: a delay, then the opposite delay *)

UndoFile == FilePath("/a", "f1", ".srt")

\* a line that ends in "\r"
DocCr == TC(0, 0, 3, 0) \o Str(<<"\r", "x">>)
\* three seconds, every digit Arabic-Indic
DocWideOnly ==
    Encode([k \in 1..TimecodeLen |->
               LET c == TC(0, 0, 3, 0)[k]
               IN  IF c \in AsciiDigits THEN ArabicIndicZero + DigitVal(c) ELSE c])
\* a digit outside ASCII in the timecode and one more as the last character
DocWideLast == Encode(HourTc(ArabicIndicZero + 3) \o <<ExtArabicIndicZero + 3>>)
\* digits of three and of four bytes
DocWider == Encode(HourTc(DevanagariZero + 3) \o Str(<<" ">>) \o HourTc(MathBoldZero + 3)
                     \o Str(<<"x", "y", "z">>))
\* a fullwidth digit, and text outside ASCII that is no digit: e acute
DocAccent == Encode(HourTc(FullwidthZero + 3) \o <<233, LF>>)

UndoDocs == Docs \cup {DocOneCue, DocTwoCues, DocCr, DocWideOnly, DocWideLast, DocWider,
                        DocAccent, DocBadByte}

UndoDelays == {-5000, -3000, -1000, -1, 0, 1, 500, 1000, 3000}

\* main is entered for the first run
InitUndo ==
    /\ fs \in {[f \in {UndoFile} |-> d] : d \in UndoDocs}
    /\ fs0 = fs
    /\ cwd = "/a"
    /\ tgt = UndoFile
    /\ delay \in UndoDelays
    /\ growth = 1
    /\ subs = <<>>
    /\ idx = 0
    /\ pc = "start"
    /\ answer = "none"
    /\ log = <<>>
    /\ out = <<>>
    /\ cin = NoProbe /\ cout = NoProbe
    /\ ein = NoProbe /\ eout = NoProbe

\* The first run has returned after its call of sync_sub, and the program is
\* started again on the same file with the opposite delay: main is entered
\* anew, the file and what the terminal shows stay.
Rerun ==
    /\ pc = "returned_done"
    /\ Len(log) = 1
    /\ delay' = -delay
    /\ subs' = <<>>
    /\ idx' = 0
    /\ pc' = "start"
    /\ answer' = "none"
    /\ UNCHANGED <<fs, fs0, cwd, tgt, growth, log, out>>
    /\ UNCHANGED <<codecVars, estVars>>

\* each run is a run of main: the working set and the preview, the answer,
\* then sync_sub
NextUndo == Resolve \/ Confirm \/ Apply \/ Rerun

SpecUndo == InitUndo /\ [][NextUndo]_vars

\* both runs have returned, each after its call of sync_sub
Undone == pc = "returned_done" /\ Len(log) = 2

\* C13: with growth 1.0, when the guard accepted the delay and the document
\* was resynchronised with it, resynchronising the result with the opposite
\* delay gives the original text back.
C13_UndoRestoresText ==
    (Undone /\ log[1].guard = "accept" /\ log[1].wrote) => fs = fs0

-----------------------------------------------------------------------------
(* Properties of the rewritten values and of the end of the run *)

\* C14: with growth 1.0 every rewritten timecode denotes the value of the
\* occurrence it replaces plus the delay, wherever the occurrence is in the
\* document and however late its time is.
C14_ConstantDelayApplied ==
    \A i \in LogIdx :
        (log[i].wrote /\ growth = 1) =>
            LET old == ValuesAt(log[i].before, FindAll(log[i].before))
                new == ValuesAt(log[i].text, FindAll(log[i].text))
            IN  /\ Len(new) = Len(old)
                /\ \A k \in 1..Len(old) : new[k] = old[k] + delay

\* the number of sync_sub calls that wrote, and that the guard rejected
RECURSIVE CountLog(_, _)
CountLog(l, wrote) ==
    IF l = <<>> THEN 0
    ELSE (IF Head(l).wrote = wrote /\ Head(l).exc = "none" THEN 1 ELSE 0)
           + CountLog(Tail(l), wrote)

\* the messages of out that report counts; main and sync_sub print the
\* preview, "Syncing file" and the guard's error, and nothing else
CountReports == {k \in 1..Len(out) : out[k].msg = "synchronised and skipped counts"}

\* C15: a run that passed the confirmation ends in main's normal return,
\* having reported the number of documents synchronised and the number
\* skipped, which add up to the size of the working set.
C15_RunEndsDoneWithCounts ==
    (answer \in YesAnswers /\ Ended) =>
        /\ pc = "returned_done"
        /\ CountLog(log, TRUE) + CountLog(log, FALSE) = Len(subs)
        /\ CountReports # {}

-----------------------------------------------------------------------------
(* Properties of the estimator's model *)

\* C16: the estimator takes the first occurrence for the first anchor and
\* the second-to-last for the second (the first again when there are two),
\* subtracts each from its anchor time, and returns the first difference as
\* the initial delay.
C16_EstimatorAnchors ==
    (eout # NoProbe /\ eout.kind = "printed") =>
        /\ EstParses
        /\ eout.delay = ein.time1 - EstValues[1]
        /\ eout.delay2 = ein.time2 - EstValues[Len(EstValues) - 1]
        /\ Len(EstValues) = 2 => eout.delay2 = ein.time2 - EstValues[1]

C16_Witness ==
    /\ eout # NoProbe
    /\ eout.kind = "printed"
    /\ ein.data = DocTwoCues
    /\ ein.time1 = 11000 /\ ein.time2 = 301000
    /\ eout.delay = 1000 /\ eout.delay2 = 1000

\* C17: whenever the estimator returns a model for anchors time1 < time2,
\* the growth factor of that model is at least 1.0.
C17_EstimatedGrowthAtLeastOne ==
    (eout # NoProbe /\ eout.kind = "printed" /\ ein.time1 < ein.time2) =>
        GrowthIsOne(eout) \/ GrowthAboveOne(eout)

-----------------------------------------------------------------------------
(* Properties of the batch run, continued *)

\* C18: for a directory target, every document the Apply phase reads and
\* writes is the file of that name inside the target directory, whatever the
\* working directory is.
C18_AppliesInsideTarget ==
    isdir(tgt, cwd) =>
        \A i \in LogIdx :
            /\ log[i].id \in DOMAIN fs0
            /\ log[i].id.dir = Abs(tgt, cwd).dir

-----------------------------------------------------------------------------
(* Properties of the estimator's model, continued *)

\* C19: for a document of at least two occurrences and anchors
\* 0 <= time1 < time2 with delay2 # 0 and delay1 / delay2 >= 0, the case
\* delay1 = 0 included, the estimator returns a model whose initial delay is
\* delay1.
C19_EstimatorReturnsModel ==
    (/\ eout # NoProbe
     /\ EstArgsError(ein) = "none"
     /\ EstParses
     /\ EstDelay2 # 0
     /\ (EstDelay1 = 0 \/ (EstDelay1 < 0) = (EstDelay2 < 0))) =>
        /\ eout.kind = "printed"
        /\ eout.delay = EstDelay1

=============================================================================
